---- MODULE Spec2Model ----
(***************************************************************************)
(* The project item tree of novelWriter (src/novelwriter/core/tree.py,     *)
(* class NWTree): the handle -> item store, the node layer built from it,  *)
(* the consistency check against the content storage and the bounded       *)
(* upward walks.                                                           *)
(*                                                                         *)
(* NWItem (novelwriter/core/item.py) and ProjectNode / ProjectModel        *)
(* (novelwriter/core/itemmodel.py) are not part of the reviewed sources;   *)
(* the few operations of theirs that NWTree calls are modelled from the    *)
(* specification's data model and are marked as such where defined.        *)
(***************************************************************************)
EXTENDS Integers, Sequences, FiniteSets, TLC

\* ------------------------------------------------------------------------
\* Bounds of the model and constants of the program
\* ------------------------------------------------------------------------

\* Number of distinct handles in a persisted record list (tree.unpack input).
MaxItems == 3

\* Number of buildModel calls modelled between two clears (each call adds
\* fresh nodes to the node layer, so the count has to be capped).
MaxBuilds == 2

\* tree.py:45  MAX_DEPTH = 1000
MAX_DEPTH == 1000

\* tree.py:214  for _ in range(999)
MAX_PASSES == 999

\* Python's None (also used for "no handle").
None == "None"

\* Handles are opaque 13-digit hex strings; the code only compares them for
\* equality, so short names stand for them.
HandleNames == <<"h1", "h2", "h3", "h4", "h5", "h6">>

Handles == {HandleNames[i] : i \in 1..MaxItems}

\* A handle that no record ever carries (spec section 8: the declared parent
\* "0000000000000" of an orphaned content unit).
BogusHandle == "0000000000000"

\* The synthetic root node of ProjectModel is the first object of the heap.
ModelRoot == 1

VARIABLES
    data,     \* the persisted record list the project hands to unpack
    files,    \* storage.scanContent(): handles of the content units on disk
    meta,     \* storage.getDocument(h).getMeta() for every content unit
    items,    \* NWTree._items: ordered dict, a sequence of item records
    heap,     \* the ProjectNode objects of NWTree._model, heap[1] = model.root
    nodes,    \* NWTree._nodes: ordered dict handle -> node, as [handle, node]
    trash,    \* NWTree._trash
    builds,   \* number of buildModel calls since the last clear
    ret       \* the last call: its name, arguments, result and pre-state

vars == <<data, files, meta, items, heap, nodes, trash, builds, ret>>

\* ------------------------------------------------------------------------
\* Ordered dictionaries (Python dict keeps insertion order; assigning to an
\* existing key keeps the key's position)
\* ------------------------------------------------------------------------

Range(s) == {s[i] : i \in DOMAIN s}

Keys(d) == {d[i].handle : i \in DOMAIN d}

KeySeq(d) == [i \in DOMAIN d |-> d[i].handle]

IndexOf(d, h) == CHOOSE i \in DOMAIN d : d[i].handle = h

Get(d, h) == d[IndexOf(d, h)]

Put(d, e) ==
    IF e.handle \in Keys(d)
    THEN [d EXCEPT ![IndexOf(d, e.handle)] = e]
    ELSE Append(d, e)

\* ------------------------------------------------------------------------
\* NWItem (modelled from the specification, sections 3 and 6)
\* ------------------------------------------------------------------------

\* NWItem.unpack: a record carries handle, parent handle, type, class,
\* layout, name and word count; the cached root is not part of a record.
NWItem_unpack(rec) ==
    [handle |-> rec.handle, parent |-> rec.parent, root |-> None,
     type |-> rec.type, class |-> rec.class, layout |-> rec.layout,
     name |-> rec.name, wordCount |-> rec.wordCount]

\* NWItem.pack: the record of an item, in the stable field order.
NWItem_pack(item) ==
    [handle |-> item.handle, parent |-> item.parent,
     type |-> item.type, class |-> item.class, layout |-> item.layout,
     name |-> item.name, wordCount |-> item.wordCount]

isRootType(item) == item.type = "ROOT"

setParent(item, pHandle) == [item EXCEPT !.parent = pHandle]

setRoot(item, rHandle) == [item EXCEPT !.root = rHandle]

\* NWItem.setClassDefaults: the root's classification is cached on the item.
setClassDefaults(item, itemClass) == [item EXCEPT !.class = itemClass]

\* ------------------------------------------------------------------------
\* ProjectNode / ProjectModel (modelled from the specification, section 4.3)
\* ------------------------------------------------------------------------

\* ProjectModel(self): a fresh model holding only the synthetic root node.
NewModel == <<[item |-> None, parent |-> 0, children |-> <<>>]>>

\* ProjectNode(item): a new node object; its identity is its heap index.
NewNode(hp, handle) ==
    Append(hp, [item |-> handle, parent |-> 0, children |-> <<>>])

\* ProjectNode.addChild: append to the ordered children, set back-reference.
addChild(hp, p, c) ==
    [hp EXCEPT ![p].children = Append(@, c), ![c].parent = p]

RECURSIVE allChildrenFrom(_, _, _)
\* The pre-order traversal of the children kids[i..] and their descendants.
allChildrenFrom(hp, kids, i) ==
    IF i > Len(kids) THEN <<>>
    ELSE <<kids[i]>> \o allChildrenFrom(hp, hp[kids[i]].children, 1)
                     \o allChildrenFrom(hp, kids, i + 1)

\* ProjectNode.allChildren: all descendants of node n, pre-order.
allChildren(hp, n) == allChildrenFrom(hp, hp[n].children, 1)

\* ------------------------------------------------------------------------
\* NWTree: the store as a value [items, heap, nodes, trash]
\* ------------------------------------------------------------------------

Store(i, hp, n, t) == [items |-> i, heap |-> hp, nodes |-> n, trash |-> t]

\* NWTree.__init__ and NWTree.clear
clear == Store(<<>>, NewModel, <<>>, None)

\* NWTree.__getitem__ returns an item (not None) exactly for these handles.
hasItem(st, tHandle) == tHandle # None /\ tHandle \in Keys(st.items)

RECURSIVE unpackFrom(_, _, _)
unpackFrom(st, recs, i) ==
    IF i > Len(recs) THEN st
    ELSE LET nwItem == NWItem_unpack(recs[i])
             st1 == [st EXCEPT !.items = Put(@, nwItem)]
             st2 == IF nwItem.class = "TRASH"
                    THEN [st1 EXCEPT !.trash = nwItem.handle]
                    ELSE st1
         IN unpackFrom(st2, recs, i + 1)

\* NWTree.unpack
unpack(recs) == unpackFrom(clear, recs, 1)

\* buildTreeItem with the working set not refilled: an item found before its
\* parent is not kept for the next pass (tree.py:255 left out).
buildTreeItem_NotKept(st, later, handle) ==
    LET item == Get(st.items, handle)
        pHandle == item.parent
        id == Len(st.heap) + 1
        attach(p) ==
            [st EXCEPT !.heap = addChild(NewNode(st.heap, handle), p, id),
                       !.nodes = Put(@, [handle |-> handle, node |-> id])]
    IN IF pHandle # None
       THEN IF pHandle \in Keys(st.nodes)
            THEN [st |-> attach(Get(st.nodes, pHandle).node), keep |-> FALSE]
            ELSE IF pHandle \in Range(later)
            THEN [st |-> st, keep |-> FALSE]
            ELSE [st |-> [st EXCEPT !.items = Put(@, setParent(item, None))],
                  keep |-> FALSE]
       ELSE IF isRootType(item)
            THEN [st |-> attach(ModelRoot), keep |-> FALSE]
            ELSE [st |-> st, keep |-> FALSE]

\* buildTreeItem leaving the parent reference of an item whose parent is
\* neither attached nor waiting as it is (tree.py:258 left out).
buildTreeItem_ParentKept(st, later, handle) ==
    LET item == Get(st.items, handle)
        pHandle == item.parent
        id == Len(st.heap) + 1
        attach(p) ==
            [st EXCEPT !.heap = addChild(NewNode(st.heap, handle), p, id),
                       !.nodes = Put(@, [handle |-> handle, node |-> id])]
    IN IF pHandle # None
       THEN IF pHandle \in Keys(st.nodes)
            THEN [st |-> attach(Get(st.nodes, pHandle).node), keep |-> FALSE]
            ELSE IF pHandle \in Range(later)
            THEN [st |-> st, keep |-> TRUE]
            ELSE [st |-> st, keep |-> FALSE]
       ELSE IF isRootType(item)
            THEN [st |-> attach(ModelRoot), keep |-> FALSE]
            ELSE [st |-> st, keep |-> FALSE]

\* One iteration of the loop of NWTree._buildTree, for the item later[i].
buildTreeItem(st, later, handle) ==
    LET item == Get(st.items, handle)
        pHandle == item.parent
        id == Len(st.heap) + 1
        attach(p) ==
            [st EXCEPT !.heap = addChild(NewNode(st.heap, handle), p, id),
                       !.nodes = Put(@, [handle |-> handle, node |-> id])]
    IN IF pHandle # None
       THEN IF pHandle \in Keys(st.nodes)
            THEN [st |-> attach(Get(st.nodes, pHandle).node), keep |-> FALSE]
            ELSE IF pHandle \in Range(later)
            THEN [st |-> st, keep |-> TRUE]
            ELSE [st |-> [st EXCEPT !.items = Put(@, setParent(item, None))],
                  keep |-> FALSE]
       ELSE IF isRootType(item)
            THEN [st |-> attach(ModelRoot), keep |-> FALSE]
            ELSE [st |-> st, keep |-> FALSE]

RECURSIVE buildTreeFrom(_, _, _, _)
buildTreeFrom(st, later, i, remains) ==
    IF i > Len(later) THEN [st |-> st, remains |-> remains]
    ELSE LET r == buildTreeItem(st, later, later[i])
         IN buildTreeFrom(r.st, later, i + 1,
                          IF r.keep THEN Append(remains, later[i]) ELSE remains)

\* NWTree._buildTree: one pass over the working set; items is the working
\* set (handles in dict order), the result the store and what remains.
buildTree(st, later) == buildTreeFrom(st, later, 1, <<>>)

RECURSIVE clearParents(_, _, _)
\* tree.py:220-221  for item in later.values(): item.setParent(None)
clearParents(its, later, i) ==
    IF i > Len(later) THEN its
    ELSE clearParents(Put(its, setParent(Get(its, later[i]), None)),
                      later, i + 1)

\* buildLoop leaving the loop at the first pass that changes nothing: the
\* working set has stopped shrinking ('if len(later) == len(before): break'
\* added to tree.py:216-217, the remaining items detached as at the cap).
buildLoop_StopsWhenStuck(st, later, n) ==
    LET RECURSIVE go(_, _, _)
        go(s, l, k) ==
            IF k = 0
            THEN [st |-> [s EXCEPT !.items = clearParents(@, l, 1)],
                  passes |-> MAX_PASSES, capped |-> TRUE]
            ELSE LET r == buildTree(s, l)
                 IN IF Len(r.remains) = 0
                    THEN [st |-> r.st, passes |-> MAX_PASSES - k + 1,
                          capped |-> FALSE]
                    ELSE IF r.st = s /\ r.remains = l
                    THEN [st |-> [s EXCEPT !.items = clearParents(@, l, 1)],
                          passes |-> MAX_PASSES - k + 1, capped |-> TRUE]
                    ELSE go(r.st, r.remains, k - 1)
    IN go(st, later, n)

RECURSIVE buildLoop(_, _, _)
\* The for loop of NWTree.buildModel with n iterations left.  A pass that
\* changes neither the store nor the working set is repeated unchanged by
\* every later iteration (the pass is a function of the two), so the
\* remaining iterations are skipped and counted.
buildLoop(st, later, n) ==
    IF n = 0
    THEN [st |-> [st EXCEPT !.items = clearParents(@, later, 1)],
          passes |-> MAX_PASSES, capped |-> TRUE]
    ELSE LET r == buildTree(st, later)
         IN IF Len(r.remains) = 0
            THEN [st |-> r.st, passes |-> MAX_PASSES - n + 1, capped |-> FALSE]
            ELSE IF r.st = st /\ r.remains = later
            THEN buildLoop(st, later, 0)
            ELSE buildLoop(r.st, r.remains, n - 1)

\* NWTree.buildModel
buildModel(st) == buildLoop(st, KeySeq(st.items), MAX_PASSES)

\* ------------------------------------------------------------------------
\* The bounded upward walk
\* ------------------------------------------------------------------------

\* Where the walk of updateItemData stands: "at" an item still to be looked
\* at, returned at the "root" it found, or returned on a "missing" ancestor.
WalkStates(st) ==
    {[k |-> kk, h |-> hh] : kk \in {"at", "root"}, hh \in Keys(st.items)}
        \cup {[k |-> "missing", h |-> None]}

\* One iteration of the for loop of updateItemData (tree.py:394-401).
walkStep(st, s) ==
    IF s.k # "at" THEN s
    ELSE LET iItem == Get(st.items, s.h)
         IN IF iItem.parent = None THEN [k |-> "root", h |-> s.h]
            ELSE IF hasItem(st, iItem.parent)
            THEN [k |-> "at", h |-> iItem.parent]
            ELSE [k |-> "missing", h |-> None]

RECURSIVE iterate(_, _, _)
\* f composed n times, on the finite domain D, by repeated squaring: the
\* state of a loop after n iterations of its body f.  (g @@ g is g, written
\* so that the table of g is computed once and not at every application.)
iterate(D, f, n) ==
    IF n = 0 THEN [s \in D |-> s]
    ELSE IF n % 2 = 0
    THEN LET g == iterate(D, f, n \div 2) IN [s \in D |-> g[g[s]]] @@ <<>>
    ELSE LET g == iterate(D, f, n - 1) IN [s \in D |-> f[g[s]]] @@ <<>>

\* updateItemData answering False where the walk runs out of iterations
\* (return False in place of tree.py:403).
updateItemData_NoRaise(st, tHandle) ==
    IF ~hasItem(st, tHandle) THEN [st |-> st, result |-> "False"]
    ELSE LET D == WalkStates(st)
             f == [s \in D |-> walkStep(st, s)]
             end == iterate(D, f, MAX_DEPTH)[[k |-> "at", h |-> tHandle]]
             tItem == Get(st.items, tHandle)
         IN IF end.k = "root"
            THEN [st |-> [st EXCEPT !.items =
                            Put(@, setClassDefaults(setRoot(tItem, end.h),
                                                    Get(st.items, end.h).class))],
                  result |-> "True"]
            ELSE [st |-> st, result |-> "False"]

\* updateItemData caching on the item the walk stands at, not on the item
\* it was called for (iItem in place of tItem in tree.py:395-396).
updateItemData_CacheOnLast(st, tHandle) ==
    IF ~hasItem(st, tHandle) THEN [st |-> st, result |-> "False"]
    ELSE LET D == WalkStates(st)
             f == [s \in D |-> walkStep(st, s)]
             end == iterate(D, f, MAX_DEPTH)[[k |-> "at", h |-> tHandle]]
             iItem == Get(st.items, end.h)
         IN IF end.k = "root"
            THEN [st |-> [st EXCEPT !.items =
                            Put(@, setClassDefaults(setRoot(iItem, end.h),
                                                    iItem.class))],
                  result |-> "True"]
            ELSE IF end.k = "missing"
            THEN [st |-> st, result |-> "False"]
            ELSE [st |-> st, result |-> "RecursionError"]

\* NWTree.updateItemData: result "True", "False" or "RecursionError".
updateItemData(st, tHandle) ==
    IF ~hasItem(st, tHandle) THEN [st |-> st, result |-> "False"]
    ELSE LET D == WalkStates(st)
             f == [s \in D |-> walkStep(st, s)]
             end == iterate(D, f, MAX_DEPTH)[[k |-> "at", h |-> tHandle]]
             tItem == Get(st.items, tHandle)
         IN IF end.k = "root"
            THEN [st |-> [st EXCEPT !.items =
                            Put(@, setClassDefaults(setRoot(tItem, end.h),
                                                    Get(st.items, end.h).class))],
                  result |-> "True"]
            ELSE IF end.k = "missing"
            THEN [st |-> st, result |-> "False"]
            ELSE [st |-> st, result |-> "RecursionError"]

\* ------------------------------------------------------------------------
\* Item store mutators and the consistency check
\* ------------------------------------------------------------------------

\* NWTree.create: in this revision the body is commented out and the
\* method returns None, whatever its arguments; the store is untouched.
create(st, label, parent, itemType, itemClass) == [st |-> st, handle |-> None]

\* NWTree.append: in this revision the body is commented out and the
\* method returns True without admitting the item.
append(st, nwItem) == [st |-> st, ok |-> TRUE]

\* NWTree.__delitem__: in this revision the body is commented out; nothing
\* is removed.
delitem(st, tHandle) == st

RECURSIVE findRootFrom(_, _, _, _)
findRootFrom(st, kids, i, itemClass) ==
    IF i > Len(kids) THEN None
    ELSE IF Get(st.items, st.heap[kids[i]].item).class = itemClass
    THEN st.heap[kids[i]].item
    ELSE findRootFrom(st, kids, i + 1, itemClass)

\* NWTree.findRoot: the first child of the model root with the given class.
findRoot(st, itemClass) ==
    findRootFrom(st, st.heap[ModelRoot].children, 1, itemClass)

RECURSIVE checkNodesFrom(_, _, _, _)
\* tree.py:277-283: the loop over self._nodes; fs is the local set files.
checkNodesFrom(st, keys, i, fs) ==
    IF i > Len(keys) THEN [st |-> st, files |-> fs, raised |-> FALSE]
    ELSE LET u == updateItemData(st, keys[i])
         IN IF u.result = "RecursionError"
            THEN [st |-> u.st, files |-> fs, raised |-> TRUE]
            ELSE IF u.result = "True"
            THEN checkNodesFrom(u.st, keys, i + 1, fs \ {keys[i]})
            ELSE checkNodesFrom(delitem(u.st, keys[i]), keys, i + 1, fs)

\* resolveParent without the declared class: an orphan whose declared
\* parent has no node goes straight to the first NOVEL root (tree.py:303-304
\* left out).
resolveParent_NovelOnly(st, m, prefix) ==
    LET oParent == IF m.parent \in Keys(st.nodes) THEN m.parent ELSE None
        p2 == IF oParent = None THEN findRoot(st, "NOVEL") ELSE oParent
        c == create(st, prefix, None, "ROOT", "NOVEL")
    IN IF p2 = None THEN [st |-> c.st, parent |-> c.handle]
       ELSE [st |-> st, parent |-> p2]

\* tree.py:297-308: the parent resolved for an orphan with metadata m;
\* None when even create returned no handle.
resolveParent(st, m, prefix) ==
    LET oParent == IF m.parent \in Keys(st.nodes) THEN m.parent ELSE None
        oClass == IF m.class = None THEN "NOVEL" ELSE m.class
        p1 == IF oParent = None THEN findRoot(st, oClass) ELSE oParent
        p2 == IF p1 = None THEN findRoot(st, "NOVEL") ELSE p1
        c == create(st, prefix, None, "ROOT", "NOVEL")
    IN IF p2 = None THEN [st |-> c.st, parent |-> c.handle]
       ELSE [st |-> st, parent |-> p2]

\* tree.py:313-318: the item built for the orphan cHandle.
recoveredItem(cHandle, m, prefix, oParent) ==
    [handle |-> cHandle, parent |-> oParent, root |-> None, type |-> "FILE",
     class |-> IF m.class = None THEN "NOVEL" ELSE m.class,
     layout |-> IF m.layout = None THEN "NOTE" ELSE m.layout,
     name |-> "[" \o prefix \o "] "
                \o (IF m.name = None THEN cHandle ELSE m.name),
     wordCount |-> 0]

RECURSIVE recoverFrom(_, _, _, _, _, _, _)
\* tree.py:292-321: the loop over the orphans, taken in the order ord;
\* chosen records the parent given to each new item (tree.py:315).
recoverFrom(st, mt, prefix, ord, i, recovered, chosen) ==
    IF i > Len(ord)
    THEN [st |-> st, status |-> "return", recovered |-> recovered,
          chosen |-> chosen]
    ELSE LET cHandle == ord[i]
             r == resolveParent(st, mt[cHandle], prefix)
             newItem == recoveredItem(cHandle, mt[cHandle], prefix, r.parent)
             a == append(r.st, newItem)
             u == updateItemData(a.st, cHandle)
             chosen1 == Put(chosen, [handle |-> cHandle, parent |-> r.parent])
         IN IF r.parent = None
            THEN [st |-> r.st, status |-> "AssertionError",
                  recovered |-> recovered, chosen |-> chosen]
            ELSE IF ~a.ok
            THEN recoverFrom(a.st, mt, prefix, ord, i + 1, recovered, chosen1)
            ELSE IF u.result = "RecursionError"
            THEN [st |-> u.st, status |-> "RecursionError",
                  recovered |-> recovered, chosen |-> chosen1]
            ELSE recoverFrom(u.st, mt, prefix, ord, i + 1, recovered + 1,
                             chosen1)

\* NWTree.checkConsistency.  fs and mt are what the storage reports; ord is
\* the order in which the Python set of orphans is iterated.  The result
\* carries the store, how the call ended ("return" or the exception
\* raised) and the pair of numbers returned.
checkConsistency(st, fs, mt, prefix, ord) ==
    LET c == checkNodesFrom(st, KeySeq(st.nodes), 1, fs)
        orphans == Cardinality(c.files)
        todo == SelectSeq(ord, LAMBDA h : h \in c.files)
        r == recoverFrom(c.st, mt, prefix, todo, 1, 0, <<>>)
    IN IF c.raised
       THEN [st |-> c.st, status |-> "RecursionError", found |-> c.files,
             val |-> <<>>, chosen |-> <<>>]
       ELSE IF orphans = 0
       THEN [st |-> c.st, status |-> "return", found |-> c.files,
             val |-> <<0, 0>>, chosen |-> <<>>]
       ELSE [st |-> r.st, status |-> r.status, found |-> c.files,
             val |-> IF r.status = "return" THEN <<orphans, r.recovered>>
                     ELSE <<>>,
             chosen |-> r.chosen]

\* NWTree.pack: the records of the items of all nodes, in traversal order.
pack(st) ==
    LET nds == allChildren(st.heap, ModelRoot)
    IN [i \in DOMAIN nds |-> NWItem_pack(Get(st.items, st.heap[nds[i]].item))]

\* ------------------------------------------------------------------------
\* Inputs: persisted record lists
\* ------------------------------------------------------------------------

\* The i-th record of a list carries the i-th handle: handles are opaque,
\* so every list of records with distinct handles is a renaming of one of
\* these.  Name, layout and word count are carried through unchanged by the
\* tree and are fixed per position.
Record(i, p, t, c) ==
    [handle |-> HandleNames[i], parent |-> p, type |-> t, class |-> c,
     layout |-> IF t = "FILE" THEN "DOCUMENT" ELSE "NO_LAYOUT",
     name |-> "Item " \o HandleNames[i],
     wordCount |-> IF t = "FILE" THEN 10 * i ELSE 0]

\* The list of records with the shapes f[1], f[2], ...: a shape is the
\* parent, type and class of a record.
RecordList(f) == [i \in DOMAIN f |-> Record(i, f[i][1], f[i][2], f[i][3])]

\* Records of any shape: with or without a parent (known, unknown, itself),
\* ROOT or FILE, NOVEL or TRASH.  (A ROOT record that carries a parent is
\* only drawn with class NOVEL.)
Shapes ==
    {<<None, t, c>> : t \in {"ROOT", "FILE"}, c \in {"NOVEL", "TRASH"}}
    \cup {<<p, "FILE", c>> : p \in Handles, c \in {"NOVEL", "TRASH"}}
    \cup {<<p, "ROOT", "NOVEL">> : p \in Handles}

\* ------------------------------------------------------------------------
\* The tree as a state machine
\* ------------------------------------------------------------------------

State == Store(items, heap, nodes, trash)

SetState(st) ==
    /\ items' = st.items
    /\ heap' = st.heap
    /\ nodes' = st.nodes
    /\ trash' = st.trash

NoCall == [op |-> "init"]

InitTree ==
    /\ items = clear.items
    /\ heap = clear.heap
    /\ nodes = clear.nodes
    /\ trash = clear.trash
    /\ builds = 0
    /\ ret = NoCall

\* The project file holds any record list; there is no content on disk.
Init ==
    /\ \E k \in 0..MaxItems : \E f \in [1..k -> Shapes] : data = RecordList(f)
    /\ files = {}
    /\ meta = <<>>
    /\ InitTree

Clear ==
    /\ SetState(clear)
    /\ builds' = 0
    /\ ret' = [op |-> "clear"]
    /\ UNCHANGED <<data, files, meta>>

Unpack ==
    /\ SetState(unpack(data))
    /\ builds' = 0
    /\ ret' = [op |-> "unpack"]
    /\ UNCHANGED <<data, files, meta>>

BuildModel ==
    /\ builds < MaxBuilds
    /\ LET r == buildModel(State)
       IN /\ SetState(r.st)
          /\ ret' = [op |-> "buildModel", pre |-> State,
                     passes |-> r.passes, capped |-> r.capped]
    /\ builds' = builds + 1
    /\ UNCHANGED <<data, files, meta>>

Pack ==
    /\ ret' = [op |-> "pack", val |-> pack(State)]
    /\ UNCHANGED <<data, files, meta, items, heap, nodes, trash, builds>>

UpdateItemData(tHandle) ==
    /\ LET r == updateItemData(State, tHandle)
       IN /\ SetState(r.st)
          /\ ret' = [op |-> "updateItemData", arg |-> tHandle,
                     pre |-> State, val |-> r.result]
    /\ UNCHANGED <<data, files, meta, builds>>

Next ==
    \/ Clear
    \/ Unpack
    \/ BuildModel
    \/ Pack

Spec == Init /\ [][Next]_vars

\* Records for the walks: parentless records of either type and class,
\* and files under any handle (known, unknown, itself, in a cycle).
WalkShapes ==
    {<<None, t, c>> : t \in {"ROOT", "FILE"}, c \in {"NOVEL", "TRASH"}}
    \cup {<<p, "FILE", "NOVEL">> : p \in Handles}

InitWalk ==
    /\ \E k \in 0..MaxItems : \E f \in [1..k -> WalkShapes] :
          data = RecordList(f)
    /\ files = {}
    /\ meta = <<>>
    /\ InitTree

NextWalk ==
    \/ Unpack
    \/ \E tHandle \in Handles : UpdateItemData(tHandle)

SpecWalk == InitWalk /\ [][NextWalk]_vars

\* ------------------------------------------------------------------------
\* The consistency check against the storage
\* ------------------------------------------------------------------------

\* Number of content units on disk.
MaxFiles == 2

\* The handles of the consistency-check runs.  The project file holds fewer
\* records than there are handles, so that a content unit can carry a handle
\* the project file does not know.
CCHandles == {HandleNames[1], HandleNames[2], HandleNames[3]}

\* Roots of two classes, parentless files, files under any handle.
CCShapes ==
    {<<None, "ROOT", c>> : c \in {"NOVEL", "PLOT"}}
    \cup {<<None, "FILE", "NOVEL">>}
    \cup {<<p, "FILE", "NOVEL">> : p \in CCHandles}

\* What getMeta returns for a content unit: nothing declared; or a name, a
\* layout and a class, with a declared parent that is a handle of the
\* project or is no handle of any item.
MetaChoices ==
    {[name |-> None, parent |-> None, class |-> None, layout |-> None]}
    \cup {[name |-> "Doc", parent |-> p, class |-> "PLOT",
           layout |-> "DOCUMENT"] : p \in CCHandles \cup {BogusHandle}}

InitCC ==
    /\ \E k \in 0..(Cardinality(CCHandles) - 1) :
          \E f \in [1..k -> CCShapes] : data = RecordList(f)
    /\ files \in {fs \in SUBSET CCHandles : Cardinality(fs) <= MaxFiles}
    /\ meta \in [files -> MetaChoices]
    /\ InitTree

\* The orders in which a Python set with the elements S can be iterated.
Orders(S) ==
    {s \in [1..Cardinality(S) -> S] : \A i, j \in DOMAIN s : s[i] = s[j] => i = j}

CheckConsistency(prefix, ord) ==
    /\ LET r == checkConsistency(State, files, meta, prefix, ord)
       IN /\ SetState(r.st)
          /\ ret' = [op |-> "checkConsistency", prefix |-> prefix,
                     pre |-> State, status |-> r.status, found |-> r.found,
                     val |-> r.val, chosen |-> r.chosen]
    /\ UNCHANGED <<data, files, meta, builds>>

\* The check runs on a project that was loaded and built at most once.
NextCC ==
    \/ Unpack
    \/ BuildModel /\ builds = 0
    \/ \E ord \in Orders(files) : CheckConsistency("REC", ord)

SpecCC == InitCC /\ [][NextCC]_vars

\* ------------------------------------------------------------------------
\* Queries: getItemPath, isTrash, sumWords
\* ------------------------------------------------------------------------

\* pathFrom collecting root-first: each ancestor is put in front of the list
\* (tTree.insert(0, ...) in place of tTree.append(...) in tree.py:431).
pathFrom_Prepend(st, tItem, asName, tTree, n) ==
    LET RECURSIVE go(_, _, _)
        go(it, tr, k) ==
            IF k = 0 THEN [status |-> "RecursionError", val |-> <<>>]
            ELSE IF it.parent = None THEN [status |-> "return", val |-> tr]
            ELSE IF ~hasItem(st, it.parent)
            THEN [status |-> "return", val |-> tr]
            ELSE LET nItem == Get(st.items, it.parent)
                 IN go(nItem,
                       <<IF asName THEN nItem.name ELSE it.parent>> \o tr,
                       k - 1)
    IN go(tItem, tTree, n)

RECURSIVE pathFrom(_, _, _, _, _)
\* tree.py:422-433: the for loop of getItemPath with n iterations left,
\* standing at tItem with tTree collected so far.
pathFrom(st, tItem, asName, tTree, n) ==
    IF n = 0 THEN [status |-> "RecursionError", val |-> <<>>]
    ELSE IF tItem.parent = None THEN [status |-> "return", val |-> tTree]
    ELSE IF ~hasItem(st, tItem.parent)
    THEN [status |-> "return", val |-> tTree]
    ELSE LET nItem == Get(st.items, tItem.parent)
         IN pathFrom(st, nItem, asName,
                     Append(tTree, IF asName THEN nItem.name ELSE tItem.parent),
                     n - 1)

\* NWTree.getItemPath.  The loop takes the same steps as the one of
\* updateItemData; where it runs out of its MAX_DEPTH iterations the list
\* is dropped and RecursionError raised, and the list is only collected
\* where the loop returns.
getItemPath(st, tHandle, asName) ==
    IF ~hasItem(st, tHandle) THEN [status |-> "return", val |-> <<>>]
    ELSE LET D == WalkStates(st)
             f == [s \in D |-> walkStep(st, s)]
             end == iterate(D, f, MAX_DEPTH)[[k |-> "at", h |-> tHandle]]
             tItem == Get(st.items, tHandle)
         IN IF end.k = "at"
            THEN [status |-> "RecursionError", val |-> <<>>]
            ELSE pathFrom(st, tItem, asName,
                          <<IF asName THEN tItem.name ELSE tHandle>>,
                          MAX_DEPTH)

\* isTrash answering False for a handle without item (return False in place
\* of tree.py:460).
isTrash_UntrackedFalse(st, tHandle) ==
    IF ~hasItem(st, tHandle) THEN FALSE
    ELSE LET tItem == Get(st.items, tHandle)
         IN IF tItem.class = "TRASH" THEN TRUE
            ELSE IF st.trash # None
            THEN tHandle = st.trash \/ tItem.parent = st.trash
                    \/ tItem.root = st.trash
            ELSE FALSE

\* NWTree.isTrash
isTrash(st, tHandle) ==
    IF ~hasItem(st, tHandle) THEN TRUE
    ELSE LET tItem == Get(st.items, tHandle)
         IN IF tItem.class = "TRASH" THEN TRUE
            ELSE IF st.trash # None
            THEN IF tHandle = st.trash THEN TRUE
                 ELSE IF tItem.parent = st.trash THEN TRUE
                 ELSE IF tItem.root = st.trash THEN TRUE
                 ELSE FALSE
            ELSE FALSE

\* sumWords looping over the node layer (self._nodes in place of
\* self._items.values() in tree.py:373).
sumWordsFrom_NodesOnly(st, i, novelWords, noteWords) ==
    LET RECURSIVE go(_, _, _)
        go(k, nv, nt) ==
            IF k > Len(st.nodes) THEN <<nv, nt>>
            ELSE LET item == Get(st.items, st.nodes[k].handle)
                 IN IF item.layout = "NOTE"
                    THEN go(k + 1, nv, nt + item.wordCount)
                    ELSE IF item.layout = "DOCUMENT"
                    THEN go(k + 1, nv + item.wordCount, nt)
                    ELSE go(k + 1, nv, nt)
    IN go(i, novelWords, noteWords)

RECURSIVE sumWordsFrom(_, _, _, _)
\* tree.py:373-377: the loop over self._items.values(), from the i-th item.
sumWordsFrom(st, i, novelWords, noteWords) ==
    IF i > Len(st.items) THEN <<novelWords, noteWords>>
    ELSE LET item == st.items[i]
         IN IF item.layout = "NOTE"
            THEN sumWordsFrom(st, i + 1, novelWords, noteWords + item.wordCount)
            ELSE IF item.layout = "DOCUMENT"
            THEN sumWordsFrom(st, i + 1, novelWords + item.wordCount, noteWords)
            ELSE sumWordsFrom(st, i + 1, novelWords, noteWords)

\* NWTree.sumWords
sumWords(st) == sumWordsFrom(st, 1, 0, 0)

GetItemPath(tHandle, asName) ==
    /\ LET r == getItemPath(State, tHandle, asName)
       IN ret' = [op |-> "getItemPath", arg |-> tHandle, asName |-> asName,
                  pre |-> State, status |-> r.status, val |-> r.val]
    /\ UNCHANGED <<data, files, meta, items, heap, nodes, trash, builds>>

IsTrash(tHandle) ==
    /\ ret' = [op |-> "isTrash", arg |-> tHandle, pre |-> State,
               val |-> isTrash(State, tHandle)]
    /\ UNCHANGED <<data, files, meta, items, heap, nodes, trash, builds>>

SumWords ==
    /\ ret' = [op |-> "sumWords", pre |-> State, val |-> sumWords(State)]
    /\ UNCHANGED <<data, files, meta, items, heap, nodes, trash, builds>>

\* Records for the paths: a root, a parentless file, and files under any
\* handle (known, unknown, itself, in a cycle).
PathShapes ==
    {<<None, "ROOT", "NOVEL">>, <<None, "FILE", "NOVEL">>}
    \cup {<<p, "FILE", "NOVEL">> : p \in Handles}

InitPath ==
    /\ \E k \in 0..MaxItems : \E f \in [1..k -> PathShapes] :
          data = RecordList(f)
    /\ files = {}
    /\ meta = <<>>
    /\ InitTree

\* Paths are asked for on a loaded project.
NextPath ==
    \/ Unpack
    \/ \E tHandle \in Handles, asName \in BOOLEAN : GetItemPath(tHandle, asName)

SpecPath == InitPath /\ [][NextPath]_vars

\* Records for the trash test: roots of either class and files under any
\* handle.
TrashShapes ==
    {<<None, "ROOT", c>> : c \in {"NOVEL", "TRASH"}}
    \cup {<<p, "FILE", "NOVEL">> : p \in Handles}

InitTrash ==
    /\ \E k \in 0..MaxItems : \E f \in [1..k -> TrashShapes] :
          data = RecordList(f)
    /\ files = {}
    /\ meta = <<>>
    /\ InitTree

\* The trash test on a loaded project; updateItemData is what caches roots.
NextTrash ==
    \/ Unpack
    \/ \E tHandle \in Handles : UpdateItemData(tHandle)
    \/ \E tHandle \in Handles : IsTrash(tHandle)

SpecTrash == InitTrash /\ [][NextTrash]_vars

\* Word counts of the records of a list, by position.
WordCounts == <<100, 50, 30, 7, 3, 1>>

\* Records for the word counts: the i-th record has the i-th word count,
\* whatever its layout.
WordRecord(i, p, t, l) ==
    [Record(i, p, t, "NOVEL") EXCEPT !.layout = l, !.wordCount = WordCounts[i]]

WordRecordList(f) ==
    [i \in DOMAIN f |-> WordRecord(i, f[i][1], f[i][2], f[i][3])]

\* A root, and files of the three layouts without parent (they get no
\* node) or under any handle.
WordShapes ==
    {<<None, "ROOT", "NO_LAYOUT">>}
    \cup {<<p, "FILE", l>> : p \in Handles \cup {None},
                             l \in {"DOCUMENT", "NOTE", "NO_LAYOUT"}}

InitWords ==
    /\ \E k \in 0..MaxItems : \E f \in [1..k -> WordShapes] :
          data = WordRecordList(f)
    /\ files = {}
    /\ meta = <<>>
    /\ InitTree

NextWords ==
    \/ Unpack
    \/ BuildModel /\ builds = 0
    \/ SumWords

SpecWords == InitWords /\ [][NextWords]_vars

\* ------------------------------------------------------------------------
\* Handle generation and the item mutators
\* ------------------------------------------------------------------------

\* The number of random draws a call of _makeHandle can take: every retry
\* is a recursive call, and the interpreter's recursion limit ends the call
\* with RecursionError.
MaxDraws == 2

\* random.getrandbits(52): the values that can be drawn.  There is one more
\* value than a record list has handles, so that a free handle always exists.
DrawSpace == 0..MaxItems

\* f"{x:013x}": the handle a drawn value is formatted to.
formatHandle(x) == HandleNames[x + 1]

\* _makeHandle returning what it drew first, without looking at the store
\* (tree.py:574-576 left out).
makeHandleFrom_NoRetry(st, draws, i) ==
    IF i > Len(draws)
    THEN [status |-> "RecursionError", handle |-> None, tries |-> i - 1]
    ELSE [status |-> "return", handle |-> formatHandle(draws[i]), tries |-> i]

RECURSIVE makeHandleFrom(_, _, _)
\* The i-th (recursive) call of _makeHandle; draws[i] is what it draws.
makeHandleFrom(st, draws, i) ==
    IF i > Len(draws)
    THEN [status |-> "RecursionError", handle |-> None, tries |-> i - 1]
    ELSE LET handle == formatHandle(draws[i])
         IN IF handle \in Keys(st.items)
            THEN makeHandleFrom(st, draws, i + 1)
            ELSE [status |-> "return", handle |-> handle, tries |-> i]

\* NWTree._makeHandle, with the values its calls draw.
makeHandle(st, draws) == makeHandleFrom(st, draws, 1)

\* NWItem.duplicate: a copy of the source item's data under a new handle.
NWItem_duplicate(sItem, handle) == [sItem EXCEPT !.handle = handle]

\* None where the caller expects an item (duplicate's "NWItem | None").
NoItem == [handle |-> None]

\* NWTree.duplicate
duplicate(st, sHandle, draws) ==
    IF ~hasItem(st, sHandle)
    THEN [st |-> st, status |-> "return", val |-> NoItem, tries |-> 0]
    ELSE LET m == makeHandle(st, draws)
             nItem == NWItem_duplicate(Get(st.items, sHandle), m.handle)
             a == append(st, nItem)
         IN IF m.status # "return"
            THEN [st |-> st, status |-> m.status, val |-> NoItem,
                  tries |-> m.tries]
            ELSE IF a.ok
            THEN [st |-> a.st, status |-> "return", val |-> nItem,
                  tries |-> m.tries]
            ELSE [st |-> a.st, status |-> "return", val |-> NoItem,
                  tries |-> m.tries]

DrawSeqs == [1..MaxDraws -> DrawSpace]

MakeHandle(draws) ==
    /\ LET m == makeHandle(State, draws)
       IN ret' = [op |-> "_makeHandle", pre |-> State, status |-> m.status,
                  val |-> m.handle, tries |-> m.tries]
    /\ UNCHANGED <<data, files, meta, items, heap, nodes, trash, builds>>

Create(label, parent, itemType, itemClass) ==
    /\ LET r == create(State, label, parent, itemType, itemClass)
       IN /\ SetState(r.st)
          /\ ret' = [op |-> "create", parent |-> parent, type |-> itemType,
                     class |-> itemClass, pre |-> State, val |-> r.handle]
    /\ UNCHANGED <<data, files, meta, builds>>

AppendItem(nwItem) ==
    /\ LET r == append(State, nwItem)
       IN /\ SetState(r.st)
          /\ ret' = [op |-> "append", arg |-> nwItem, pre |-> State,
                     val |-> r.ok]
    /\ UNCHANGED <<data, files, meta, builds>>

Duplicate(sHandle, draws) ==
    /\ LET r == duplicate(State, sHandle, draws)
       IN /\ SetState(r.st)
          /\ ret' = [op |-> "duplicate", arg |-> sHandle, pre |-> State,
                     status |-> r.status, val |-> r.val, tries |-> r.tries]
    /\ UNCHANGED <<data, files, meta, builds>>

Delete(tHandle) ==
    /\ SetState(delitem(State, tHandle))
    /\ ret' = [op |-> "delete", arg |-> tHandle, pre |-> State]
    /\ UNCHANGED <<data, files, meta, builds>>

\* A string that is no handle (isHandle fails on it).
MalformedHandle == "not-a-handle"

\* The handles a caller passes: those a record can carry, the one more that
\* can be drawn, and for append a malformed one.
CallHandles == {formatHandle(x) : x \in DrawSpace}

\* Pre-built items handed to append: a root of either class or a file,
\* under any handle.
NewItems ==
    {[handle |-> h, parent |-> None, root |-> None, type |-> tc[1],
      class |-> tc[2], layout |-> "NO_LAYOUT", name |-> "New",
      wordCount |-> 0] :
        h \in CallHandles \cup {MalformedHandle},
        tc \in {<<"ROOT", "NOVEL">>, <<"ROOT", "TRASH">>, <<"FILE", "NOVEL">>}}

\* Records for the mutators: roots of either class, files of either class
\* under the first handle (a record of the list, the file itself, or none).
OpsShapes ==
    {<<None, "ROOT", c>> : c \in {"NOVEL", "TRASH"}}
    \cup {<<HandleNames[1], "FILE", c>> : c \in {"NOVEL", "TRASH"}}

\* The project file holds fewer records than there are handles.
InitOps ==
    /\ \E k \in 0..(MaxItems - 1) : \E f \in [1..k -> OpsShapes] :
          data = RecordList(f)
    /\ files = {}
    /\ meta = <<>>
    /\ InitTree

\* Any sequence of calls on a project that is built at most once per load.
NextOps ==
    \/ Unpack
    \/ BuildModel /\ builds = 0
    \/ \E parent \in CallHandles \cup {None}, itemType \in {"ROOT", "FILE"},
          itemClass \in {"NOVEL", "TRASH"} :
            Create("New", parent, itemType, itemClass)
    \/ \E nwItem \in NewItems : AppendItem(nwItem)
    \/ \E tHandle \in CallHandles : Delete(tHandle)
    \/ \E ord \in Orders(files) : CheckConsistency("REC", ord)

SpecOps == InitOps /\ [][NextOps]_vars

\* Records for the handle generation: a root, files under the first handle.
DrawShapes == {<<None, "ROOT", "NOVEL">>, <<HandleNames[1], "FILE", "NOVEL">>}

InitDraw ==
    /\ \E k \in 0..MaxItems : \E f \in [1..k -> DrawShapes] :
          data = RecordList(f)
    /\ files = {}
    /\ meta = <<>>
    /\ InitTree

\* Handles are generated, and items duplicated, on a loaded project.
NextDraw ==
    \/ Unpack
    \/ \E draws \in DrawSeqs : MakeHandle(draws)
    \/ \E sHandle \in CallHandles, draws \in DrawSeqs :
          Duplicate(sHandle, draws)

SpecDraw == InitDraw /\ [][NextDraw]_vars

\* ------------------------------------------------------------------------
\* Well-formed record lists
\* ------------------------------------------------------------------------

RecHandles(recs) == {recs[i].handle : i \in DOMAIN recs}

RecOf(recs, h) == recs[CHOOSE i \in DOMAIN recs : recs[i].handle = h]

RECURSIVE ReachesRoot(_, _, _)
\* Following parent handles from h ends at a parentless record within n steps.
ReachesRoot(recs, h, n) ==
    /\ h \in RecHandles(recs)
    /\ \/ RecOf(recs, h).parent = None
       \/ n > 0 /\ ReachesRoot(recs, RecOf(recs, h).parent, n - 1)

\* Distinct handles; every parent handle is none or the handle of a record
\* of the list (earlier or later); the parentless records are exactly the
\* ROOT records; no parent cycle; at most one TRASH root.
WellFormed(recs) ==
    /\ \A i, j \in DOMAIN recs : recs[i].handle = recs[j].handle => i = j
    /\ \A i \in DOMAIN recs :
          /\ recs[i].parent = None \/ recs[i].parent \in RecHandles(recs)
          /\ (recs[i].type = "ROOT") <=> (recs[i].parent = None)
          /\ ReachesRoot(recs, recs[i].handle, Len(recs))
    /\ Cardinality({i \in DOMAIN recs :
                      recs[i].type = "ROOT" /\ recs[i].class = "TRASH"}) <= 1

\* The store is the one unpack(data) followed by one buildModel leaves.
LoadedAndBuilt ==
    /\ builds = 1
    /\ State = buildModel(unpack(data)).st

\* The handles of the children of heap node n, in order.
ChildHandles(n) == [i \in DOMAIN heap[n].children |-> heap[heap[n].children[i]].item]

ItemsWithParent(h) == {it.handle : it \in {x \in Range(items) : x.parent = h}}

RootItems == {it.handle : it \in {x \in Range(items) : isRootType(x)}}

PositionIn(recs, h) == CHOOSE i \in DOMAIN recs : recs[i].handle = h

\* ------------------------------------------------------------------------
\* C1: for a well-formed record list, after unpack and buildModel the
\* children of every node are exactly (each once) the items whose parent
\* handle is the node's handle, and the children of the synthetic root are
\* exactly the ROOT items.
\* ------------------------------------------------------------------------
C1_ChildrenAreItemsOfParent ==
    (LoadedAndBuilt /\ WellFormed(data)) =>
        \A n \in DOMAIN heap :
            /\ Range(ChildHandles(n)) =
                  (IF n = ModelRoot THEN RootItems
                   ELSE ItemsWithParent(heap[n].item))
            /\ Cardinality(Range(ChildHandles(n))) = Len(heap[n].children)

\* A well-formed list where a child record precedes its parent record has
\* been loaded and built, and the parent's node has children.
C1_Witness ==
    /\ LoadedAndBuilt /\ WellFormed(data)
    /\ \E i, j \in DOMAIN data : i < j /\ data[i].parent = data[j].handle
    /\ \E n \in DOMAIN heap : n # ModelRoot /\ Len(heap[n].children) >= 2

\* ------------------------------------------------------------------------
\* C2: for a well-formed record list, after unpack and buildModel siblings
\* stand in their parent's children in the order of the record list.
\* ------------------------------------------------------------------------
C2_ChildrenInListOrder ==
    (LoadedAndBuilt /\ WellFormed(data)) =>
        \A n \in DOMAIN heap :
            \A i, j \in DOMAIN heap[n].children :
                i < j => PositionIn(data, ChildHandles(n)[i])
                           < PositionIn(data, ChildHandles(n)[j])

\* ------------------------------------------------------------------------
\* C3: for a well-formed record list, pack after unpack and buildModel
\* returns the list itself, same order, same fields.
\* ------------------------------------------------------------------------
C3_PackUnpackRoundTrip ==
    (ret.op = "pack" /\ LoadedAndBuilt /\ WellFormed(data)) => ret.val = data

\* ------------------------------------------------------------------------
\* Claims about checkConsistency
\* ------------------------------------------------------------------------

Returned == ret.op = "checkConsistency" /\ ret.status = "return"

\* The upward walk from h succeeds in the store st.
WalkSucceeds(st, h) == updateItemData(st, h).result = "True"

\* The root nodes of store st whose item has class c, as positions in the
\* children of the model root.
RootPositions(st, c) ==
    {i \in DOMAIN st.heap[ModelRoot].children :
        Get(st.items, st.heap[st.heap[ModelRoot].children[i]].item).class = c}

\* The handle of the first root node of class c (there is one).
FirstRoot(st, c) ==
    LET i == CHOOSE k \in RootPositions(st, c) :
                 \A l \in RootPositions(st, c) : k <= l
    IN st.heap[st.heap[ModelRoot].children[i]].item

DeclaredClass(h) == IF meta[h].class = None THEN "NOVEL" ELSE meta[h].class

DeclaredName(h) == IF meta[h].name = None THEN h ELSE meta[h].name

\* ------------------------------------------------------------------------
\* C4: after checkConsistency(prefix) returns, every content unit that had
\* no tracked item before the call is tracked, is a FILE under the parent
\* resolved for it and is named "[prefix] " + declared name or handle; the
\* second number returned is the number of items admitted.
\* ------------------------------------------------------------------------
C4_OrphansAdmitted ==
    Returned =>
        /\ \A h \in files \ Keys(ret.pre.items) :
              /\ h \in Keys(items)
              /\ Get(items, h).type = "FILE"
              /\ h \in Keys(ret.chosen)
              /\ Get(items, h).parent = Get(ret.chosen, h).parent
              /\ Get(items, h).name = "[" \o ret.prefix \o "] " \o DeclaredName(h)
        /\ ret.val[2] = Cardinality(Keys(items) \ Keys(ret.pre.items))

\* ------------------------------------------------------------------------
\* C5, as amended: the parent checkConsistency chooses for an orphan is the
\* declared parent if that handle has a node in the node layer; otherwise
\* the first root node of the declared class (NOVEL when none is declared);
\* otherwise the first NOVEL root node.  A declared parent without a node
\* is never chosen for being declared.
\* ------------------------------------------------------------------------
C5_ParentResolution ==
    ret.op = "checkConsistency" =>
        \A h \in Keys(ret.chosen) :
            LET p == Get(ret.chosen, h).parent
            IN IF meta[h].parent \in Keys(ret.pre.nodes)
               THEN p = meta[h].parent
               ELSE IF RootPositions(ret.pre, DeclaredClass(h)) # {}
               THEN p = FirstRoot(ret.pre, DeclaredClass(h))
               ELSE RootPositions(ret.pre, "NOVEL") # {}
                      => p = FirstRoot(ret.pre, "NOVEL")

\* Two roots, the first NOVEL and the second of another class, and an
\* orphan of that class whose declared parent is unknown: it was given the
\* second root.
C5_Witness ==
    /\ Returned
    /\ \E h \in Keys(ret.chosen) :
          /\ meta[h].parent = BogusHandle
          /\ DeclaredClass(h) = "PLOT"
          /\ RootPositions(ret.pre, "NOVEL") # {}
          /\ RootPositions(ret.pre, "PLOT") # {}
          /\ Get(ret.chosen, h).parent = FirstRoot(ret.pre, "PLOT")
          /\ FirstRoot(ret.pre, "PLOT") # FirstRoot(ret.pre, "NOVEL")

\* C5 as claimed, for the orphans the project did not track and that do not
\* declare themselves as parent: the declared parent is chosen whenever it
\* is a handle the store knows; otherwise the first root of the declared
\* class; otherwise the first NOVEL root.
C5_AsClaimed ==
    ret.op = "checkConsistency" =>
        \A h \in Keys(ret.chosen) \ Keys(ret.pre.items) :
            LET p == Get(ret.chosen, h).parent
            IN IF meta[h].parent \in Keys(ret.pre.items)
               THEN p = meta[h].parent
               ELSE IF RootPositions(ret.pre, DeclaredClass(h)) # {}
               THEN p = FirstRoot(ret.pre, DeclaredClass(h))
               ELSE RootPositions(ret.pre, "NOVEL") # {}
                      => p = FirstRoot(ret.pre, "NOVEL")

\* An orphan of the call for which no parent can be found: its declared
\* parent has no node and there is neither a root of its class nor a NOVEL
\* root.
NeedsNewRoot(h) ==
    /\ h \in ret.found
    /\ meta[h].parent \notin Keys(ret.pre.nodes)
    /\ RootPositions(ret.pre, DeclaredClass(h)) = {}
    /\ RootPositions(ret.pre, "NOVEL") = {}

\* ------------------------------------------------------------------------
\* C6: when an orphan has no usable parent and there is no root of its
\* class and no NOVEL root, checkConsistency creates a NOVEL root, admits
\* it, parents the recovered item under it and returns normally.
\* ------------------------------------------------------------------------
C6_NewRootSynthesized ==
    (ret.op = "checkConsistency" /\ \E h \in files : NeedsNewRoot(h)) =>
        /\ ret.status = "return"
        /\ \E r \in Keys(items) \ Keys(ret.pre.items) :
              /\ Get(items, r).type = "ROOT"
              /\ Get(items, r).class = "NOVEL"
              /\ \E h \in files :
                    /\ NeedsNewRoot(h)
                    /\ h \in Keys(items)
                    /\ Get(items, h).parent = r

\* ------------------------------------------------------------------------
\* C7: the first number returned is the number of content units without a
\* valid tracked item (a tracked item whose upward walk succeeds is valid,
\* with or without a node); when it is zero the call returns (0, 0) and
\* the store holds the same items; the second number is at most the first.
\* ------------------------------------------------------------------------
C7_OrphanCount ==
    Returned =>
        /\ ret.val[1] = Cardinality({h \in files : ~WalkSucceeds(ret.pre, h)})
        /\ ret.val[1] = 0 =>
              ret.val = <<0, 0>> /\ KeySeq(items) = KeySeq(ret.pre.items)
        /\ ret.val[2] <= ret.val[1]

\* ------------------------------------------------------------------------
\* C8: a tracked handle whose upward walk fails on a missing ancestor is
\* evicted by checkConsistency: afterwards the store does not hold the
\* original item under it; and no item whose walk succeeds is removed.
\* ------------------------------------------------------------------------
C8_BrokenItemsEvicted ==
    Returned =>
        \A h \in Keys(ret.pre.items) :
            IF updateItemData(ret.pre, h).result = "False"
            THEN h \notin Keys(items)
                   \/ Get(items, h).parent # Get(ret.pre.items, h).parent
            ELSE h \in Keys(items)

\* ------------------------------------------------------------------------
\* Claims about updateItemData
\* ------------------------------------------------------------------------

RECURSIVE ParentAfter(_, _, _)
\* Where n parent steps from the tracked handle h lead: a tracked handle,
\* "top" with the parentless item found, or "missing".
ParentAfter(st, h, n) ==
    IF n = 0 THEN [at |-> h, top |-> None, missing |-> FALSE]
    ELSE IF Get(st.items, h).parent = None
    THEN [at |-> None, top |-> h, missing |-> FALSE]
    ELSE IF Get(st.items, h).parent \notin Keys(st.items)
    THEN [at |-> None, top |-> None, missing |-> TRUE]
    ELSE ParentAfter(st, Get(st.items, h).parent, n - 1)

\* The parent chain of h runs into a cycle of tracked items: as many steps
\* as there are items neither end nor leave the store.
ChainHasCycle(st, h) ==
    /\ h \in Keys(st.items)
    /\ ParentAfter(st, h, Len(st.items)).at # None

Acyclic(st) == \A h \in Keys(st.items) : ~ChainHasCycle(st, h)

\* The parentless ancestor the chain of h ends at, None if there is none.
ChainTop(st, h) ==
    IF h \in Keys(st.items) THEN ParentAfter(st, h, Len(st.items)).top
    ELSE None

Walked == ret.op = "updateItemData"

\* ------------------------------------------------------------------------
\* C9: updateItemData(h) on a handle whose parent chain holds a cycle of
\* tracked items ends in RecursionError; it does not return and it leaves
\* the cached root of h (and the whole store) as it was.
\* ------------------------------------------------------------------------
C9_CycleIsFatal ==
    (Walked /\ ChainHasCycle(ret.pre, ret.arg)) =>
        /\ ret.val = "RecursionError"
        /\ State = ret.pre

\* The walk was started outside a cycle of two or more items it runs into.
C9_Witness ==
    /\ Walked /\ ChainHasCycle(ret.pre, ret.arg)
    /\ \A n \in 1..Len(ret.pre.items) :
          ParentAfter(ret.pre, ret.arg, n).at # ret.arg
    /\ ret.val = "RecursionError"

\* ------------------------------------------------------------------------
\* C10, as amended: in an acyclic store (chains shorter than MAX_DEPTH)
\* updateItemData(h) returns True exactly when h is tracked and every
\* handle on its parent chain is tracked up to an item without parent, of
\* whatever type; then the cached root of h is that item's handle, the
\* class of h is that item's class, and nothing else changes; otherwise it
\* returns False and nothing changes.
\* ------------------------------------------------------------------------
C10_WalkToParentless ==
    (Walked /\ Acyclic(ret.pre) /\ Len(ret.pre.items) < MAX_DEPTH) =>
        LET top == ChainTop(ret.pre, ret.arg)
        IN IF top # None
           THEN /\ ret.val = "True"
                /\ State = [ret.pre EXCEPT !.items =
                       Put(@, [Get(ret.pre.items, ret.arg) EXCEPT
                                 !.root = top,
                                 !.class = Get(ret.pre.items, top).class])]
           ELSE /\ ret.val = "False"
                /\ State = ret.pre

\* A walk over at least one parent that ended at a parentless item and
\* changed the class of the item it was called for.
C10_Witness ==
    /\ Walked /\ Acyclic(ret.pre) /\ ret.val = "True"
    /\ Get(ret.pre.items, ret.arg).parent # None
    /\ Get(items, ret.arg).class # Get(ret.pre.items, ret.arg).class
    /\ Get(items, ret.arg).root = ChainTop(ret.pre, ret.arg)

\* C10 as claimed: success exactly when the chain is tracked up to an item
\* of type ROOT.
C10_AsClaimed ==
    (Walked /\ Acyclic(ret.pre)) =>
        LET top == ChainTop(ret.pre, ret.arg)
        IN (ret.val = "True") <=>
              (top # None /\ isRootType(Get(ret.pre.items, top)))

\* ------------------------------------------------------------------------
\* Claims about the queries
\* ------------------------------------------------------------------------

\* The number of tracked items on the parent chain of the tracked handle h,
\* h included, up to a parentless item or an untracked parent.
ChainLength(st, h) ==
    Cardinality({n \in 0..Len(st.items) : ParentAfter(st, h, n).at # None})

\* The handles on the parent chain of h, from h upward.
ChainHandles(st, h) ==
    IF h \notin Keys(st.items) THEN <<>>
    ELSE [n \in 1..ChainLength(st, h) |-> ParentAfter(st, h, n - 1).at]

GotPath == ret.op = "getItemPath"

AskedTrash == ret.op = "isTrash"

\* The item isTrash was asked about (the handle is tracked).
AskedItem == Get(ret.pre.items, ret.arg)

\* h is the trash root, a child of it, or has it as cached root.
InTrashBranch ==
    /\ ret.arg \in Keys(ret.pre.items)
    /\ ret.pre.trash # None
    /\ \/ ret.arg = ret.pre.trash
       \/ AskedItem.parent = ret.pre.trash
       \/ AskedItem.root = ret.pre.trash

\* ------------------------------------------------------------------------
\* C12, as amended: isTrash(h) returns true if h is not tracked, if the
\* item of h has class TRASH, if h is the trash root, if h's parent is the
\* trash root, or if h's cached root is the trash root; and false for every
\* other handle.  The store is not modified.
\* ------------------------------------------------------------------------
C12_TrashOrUntracked ==
    AskedTrash =>
        /\ ret.val = (\/ ret.arg \notin Keys(ret.pre.items)
                      \/ AskedItem.class = "TRASH"
                      \/ InTrashBranch)
        /\ State = ret.pre

\* An item two levels below the trash root, tied to it by its cached root
\* and not by its parent, was reported as trash.
C12_Witness ==
    /\ AskedTrash /\ ret.val = TRUE
    /\ ret.arg \in Keys(ret.pre.items)
    /\ ret.arg # ret.pre.trash
    /\ AskedItem.parent # ret.pre.trash
    /\ AskedItem.root = ret.pre.trash
    /\ Get(ret.pre.items, ret.pre.trash).type = "ROOT"

\* C12 as claimed: true exactly for the trash root, its children and the
\* items whose cached root it is; false for any other handle, tracked or
\* not.
C12_AsClaimed ==
    AskedTrash => (ret.val = InTrashBranch)

RECURSIVE TotalOver(_, _)
\* The sum of the word counts of the items at the positions P of store st.
TotalOver(st, P) ==
    IF P = {} THEN 0
    ELSE LET i == CHOOSE k \in P : TRUE
         IN st.items[i].wordCount + TotalOver(st, P \ {i})

\* The total word count of the items of store st with layout l.
LayoutTotal(st, l) ==
    TotalOver(st, {i \in DOMAIN st.items : st.items[i].layout = l})

\* ------------------------------------------------------------------------
\* C13: sumWords() returns the pair (total wordCount of the items with
\* layout DOCUMENT, total wordCount of the items with layout NOTE), each
\* item of the store counted once whether or not it has a node, items of
\* any other layout ignored, and the store unchanged.
\* ------------------------------------------------------------------------
C13_SumWordsByLayout ==
    ret.op = "sumWords" =>
        /\ ret.val = <<LayoutTotal(ret.pre, "DOCUMENT"),
                       LayoutTotal(ret.pre, "NOTE")>>
        /\ State = ret.pre

\* The scenario of the specification, on a built store where one of the
\* counted items has no node: documents of 100 and 50 words and a note of
\* 30 words give (150, 30).
C13_Witness ==
    /\ ret.op = "sumWords"
    /\ builds = 1
    /\ ret.val = <<150, 30>>
    /\ Len(items) = 3
    /\ \E h \in Keys(items) : h \notin Keys(nodes)

\* ------------------------------------------------------------------------
\* Claims about handle generation and the item mutators
\* ------------------------------------------------------------------------

MadeHandle == ret.op = "_makeHandle" /\ ret.status = "return"

\* ------------------------------------------------------------------------
\* C14: whenever _makeHandle returns, the handle returned is not a key of
\* the store, whatever the store holds and whatever is drawn; a draw that
\* collides is followed by another draw.
\* ------------------------------------------------------------------------
C14_HandleIsFresh ==
    MadeHandle =>
        /\ ret.val \notin Keys(ret.pre.items)
        /\ ret.val \in CallHandles

\* A handle was returned by the second draw, the first having collided
\* with one of the two or more handles of the store.
C14_Witness ==
    /\ MadeHandle
    /\ ret.tries = 2
    /\ Len(ret.pre.items) >= 2
    /\ ret.val \notin Keys(ret.pre.items)

\* ------------------------------------------------------------------------
\* C15: create(name, parent, itemType, itemClass) with parent none or a
\* known handle, or for a ROOT item, returns a handle that was not tracked
\* and the store then holds an item under it; with any other parent it
\* returns no handle and leaves the store unchanged.
\* ------------------------------------------------------------------------
C15_CreateAdmits ==
    ret.op = "create" =>
        IF \/ ret.parent = None
           \/ ret.parent \in Keys(ret.pre.items)
           \/ ret.type = "ROOT"
        THEN /\ ret.val # None
             /\ ret.val \notin Keys(ret.pre.items)
             /\ ret.val \in Keys(items)
        ELSE /\ ret.val = None
             /\ State = ret.pre

\* append must reject the item: its handle is malformed, or already in the
\* store, or it is a TRASH root while a trash root is tracked.
MustReject(st, nwItem) ==
    \/ nwItem.handle = MalformedHandle
    \/ nwItem.handle \in Keys(st.items)
    \/ isRootType(nwItem) /\ nwItem.class = "TRASH" /\ st.trash # None

\* ------------------------------------------------------------------------
\* C16: append(item) returns false and leaves the store unchanged for an
\* item with a malformed handle, with a handle already in the store, or
\* that is a TRASH root when a trash root is tracked; in every other case
\* it returns true and the store then holds the item under its handle.
\* ------------------------------------------------------------------------
C16_AppendAdmitsOrRejects ==
    ret.op = "append" =>
        IF MustReject(ret.pre, ret.arg)
        THEN /\ ret.val = FALSE
             /\ State = ret.pre
        ELSE /\ ret.val = TRUE
             /\ ret.arg.handle \in Keys(items)
             /\ Get(items, ret.arg.handle) = ret.arg

\* ------------------------------------------------------------------------
\* C17: duplicate(sourceHandle), where it returns, gives for a tracked
\* source a new item whose handle was not tracked before, whose data are
\* those of the source, and which the store holds afterwards (one item
\* more, the source item unchanged); for an untracked source it gives none
\* and the store is unchanged.
\* ------------------------------------------------------------------------
C17_DuplicateAdmitsCopy ==
    (ret.op = "duplicate" /\ ret.status = "return") =>
        IF ret.arg \in Keys(ret.pre.items)
        THEN /\ ret.val # NoItem
             /\ ret.val.handle \notin Keys(ret.pre.items)
             /\ ret.val = [Get(ret.pre.items, ret.arg) EXCEPT
                             !.handle = ret.val.handle]
             /\ ret.val.handle \in Keys(items)
             /\ Len(items) = Len(ret.pre.items) + 1
             /\ Get(items, ret.arg) = Get(ret.pre.items, ret.arg)
        ELSE /\ ret.val = NoItem
             /\ State = ret.pre

\* The items of class TRASH in the store.
TrashItems == {it \in Range(items) : it.class = "TRASH"}

\* ------------------------------------------------------------------------
\* C18: in every state reached by unpack, buildModel, create, append,
\* delete and checkConsistency the store holds at most one item of class
\* TRASH, and that item is a ROOT.
\* ------------------------------------------------------------------------
C18_SingleTrashRoot ==
    /\ Cardinality(TrashItems) <= 1
    /\ \A it \in TrashItems : isRootType(it)

\* ------------------------------------------------------------------------
\* Claims about the node layer of any record list
\* ------------------------------------------------------------------------

RECURSIVE EndsAtRoot(_, _, _)
\* Following the parent handles of the records from h ends, within n
\* steps, at a parentless record of type ROOT.
EndsAtRoot(recs, h, n) ==
    /\ h \in RecHandles(recs)
    /\ IF RecOf(recs, h).parent = None
       THEN RecOf(recs, h).type = "ROOT"
       ELSE n > 0 /\ EndsAtRoot(recs, RecOf(recs, h).parent, n - 1)

\* The handle of the item the parent node of h's node wraps (None for the
\* synthetic root).
NodeParentHandle(h) == heap[heap[Get(nodes, h).node].parent].item

\* ------------------------------------------------------------------------
\* C19: for any record list, after unpack and buildModel an item has a node
\* if and only if its ancestor chain ends at a ROOT, and every ROOT item
\* has a node that is a child of the synthetic root.
\* ------------------------------------------------------------------------
C19_NodeIffChainEndsAtRoot ==
    LoadedAndBuilt =>
        /\ \A h \in Keys(items) :
              (h \in Keys(nodes)) <=> EndsAtRoot(data, h, Len(data))
        /\ \A h \in RootItems :
              /\ h \in Keys(nodes)
              /\ heap[Get(nodes, h).node].parent = ModelRoot

Built == ret.op = "buildModel"

\* The parent handle of h in store st refers to nothing in the store.
DanglingParent(st, h) ==
    /\ Get(st.items, h).parent # None
    /\ Get(st.items, h).parent \notin Keys(st.items)

\* ------------------------------------------------------------------------
\* C20: after buildModel every item whose parent handle referred to
\* nothing in the store, and every item that was still in the working set
\* at the pass cap (its parent chain runs into a cycle), has no parent and
\* no node; and every item that still has a parent handle has a node whose
\* parent node wraps the item with that handle.
\* ------------------------------------------------------------------------
C20_UnattachedAreDetached ==
    Built =>
        /\ \A h \in Keys(ret.pre.items) :
              (DanglingParent(ret.pre, h) \/ ChainHasCycle(ret.pre, h)) =>
                  /\ Get(items, h).parent = None
                  /\ h \notin Keys(nodes)
        /\ ret.capped <=> \E h \in Keys(ret.pre.items) : ChainHasCycle(ret.pre, h)
        /\ \A h \in Keys(items) :
              Get(items, h).parent # None =>
                  /\ h \in Keys(nodes)
                  /\ NodeParentHandle(h) = Get(items, h).parent

\* A build that hit the pass cap on a parent cycle, cleared the parent of
\* an item of the cycle and attached another item under its parent's node.
C20_Witness ==
    /\ Built /\ ret.capped
    /\ \E h \in Keys(ret.pre.items) :
          /\ ChainHasCycle(ret.pre, h)
          /\ Get(items, h).parent = None
          /\ h \notin Keys(nodes)
    /\ \E h \in Keys(items) :
          /\ Get(items, h).parent # None
          /\ NodeParentHandle(h) = Get(items, h).parent

\* Some parent chain of store st runs into a cycle.
HasCycle(st) == \E h \in Keys(st.items) : ChainHasCycle(st, h)

\* The most passes in which a working set of the items of st can shrink:
\* every such pass takes at least one item out of it.
ShrinkingPasses(st) == IF Len(st.items) = 0 THEN 1 ELSE Len(st.items)

\* ------------------------------------------------------------------------
\* C21, as amended: buildModel ends for every store and never runs more
\* than the 999 passes of the cap.  It stops as soon as the working set is
\* empty, which without a parent cycle happens within as many passes as
\* there are items; with a parent cycle the working set never empties and
\* all 999 passes are run, also after it has stopped shrinking.  Every
\* well-formed list is fully attached before the cap, in any record order.
\* ------------------------------------------------------------------------
C21_PassesUntilEmptyOrCap ==
    Built =>
        /\ ret.passes \in 1..MAX_PASSES
        /\ IF HasCycle(ret.pre)
           THEN ret.capped /\ ret.passes = MAX_PASSES
           ELSE ~ret.capped /\ ret.passes <= ShrinkingPasses(ret.pre)
        /\ (LoadedAndBuilt /\ WellFormed(data)) =>
              /\ ~ret.capped
              /\ Keys(nodes) = Keys(items)

\* A store of a root, a file under it and a file in a parent cycle took
\* all the passes of the cap, although the working set was down to the
\* cycle after the first pass; the file under the root was attached.
C21_Witness ==
    /\ Built
    /\ HasCycle(ret.pre)
    /\ ret.capped /\ ret.passes = MAX_PASSES
    /\ Len(ret.pre.items) >= 3
    /\ \E h \in Keys(items) :
          /\ Get(items, h).parent # None
          /\ h \in Keys(nodes)

\* C21 as claimed: the build stops as soon as the working set is empty or
\* has stopped shrinking, that is after at most one pass more than the
\* working set can shrink.
C21_AsClaimed ==
    Built => ret.passes <= ShrinkingPasses(ret.pre) + 1

\* The handles of the items of the nodes of store st, in the order of the
\* full-tree traversal.
Traversal(st) ==
    LET nds == allChildren(st.heap, ModelRoot)
    IN [i \in DOMAIN nds |-> st.heap[nds[i]].item]

\* ------------------------------------------------------------------------
\* C22: buildModel called again on a built store, with no clear or unpack
\* in between, leaves the node layer the first call built: the traversal
\* visits the same handles in the same order, every tracked handle at most
\* once, and pack returns the same records as before the call.
\* ------------------------------------------------------------------------
C22_RebuildIsIdempotent ==
    (Built /\ builds >= 2) =>
        /\ items = ret.pre.items
        /\ Traversal(State) = Traversal(ret.pre)
        /\ \A i, j \in DOMAIN Traversal(State) :
              Traversal(State)[i] = Traversal(State)[j] => i = j
        /\ pack(State) = pack(ret.pre)

\* Record i of the list is its trash root: a parentless ROOT of class TRASH,
\* and every other record of class TRASH is an item parented under it.
IsTrashRootOf(recs, i) ==
    /\ recs[i].type = "ROOT" /\ recs[i].class = "TRASH"
    /\ recs[i].parent = None
    /\ \A j \in DOMAIN recs \ {i} :
          recs[j].class = "TRASH" =>
              recs[j].type # "ROOT" /\ recs[j].parent = recs[i].handle

\* ------------------------------------------------------------------------
\* C23: in every reachable state trashRoot is none or the handle of an
\* item of the store of type ROOT and class TRASH; after unpack of records
\* with one trash root, under which the other records of class TRASH are
\* parented, it is the handle of that root; after clear it is none.
\* ------------------------------------------------------------------------
C23_TrashRootIsTrackedRoot ==
    /\ trash # None =>
          /\ trash \in Keys(items)
          /\ isRootType(Get(items, trash))
          /\ Get(items, trash).class = "TRASH"
    /\ ret.op = "unpack" =>
          \A i \in DOMAIN data :
              IsTrashRootOf(data, i) => trash = data[i].handle
    /\ ret.op = "clear" => trash = None

====
